---- MODULE Spec2Model ----
(***************************************************************************)
(* Model of the CLBlast tuning-parameter database (src/database/           *)
(* database.cpp): the vendor-name table, Database::Search, the Database    *)
(* constructor and the two accessors GetDefines and GetParameterNames.     *)
(*                                                                         *)
(* Strings are TLA+ strings.  A knowledge base is a sequence of entries    *)
(*   [kernel, precision, vendors], a vendor record is                      *)
(*   [name, type, devices], a device record is [name, parameters].         *)
(* Search returns a pointer into the searched vector (&device.parameters): *)
(* the pointer is modelled as the position <<entry, vendor, device>> of    *)
(* the device record, and nullptr as the empty tuple.                      *)
(* The capability string is modelled as the sequence of the extension      *)
(* names it holds; std::string::find as membership of the marker.          *)
(***************************************************************************)
EXTENDS Integers, Sequences, FiniteSets

VARIABLES
  apple_build,         \* whether __APPLE__ or __MACOSX is defined in this build
  device,              \* [type, vendor, name, capabilities] reported by the device
  kernel_name,         \* constructor argument
  precision,           \* constructor argument
  overlay,             \* constructor argument: the overlay database
  database,            \* Database::database (static)
  apple_cpu_fallback,  \* Database::apple_cpu_fallback (static)
  status,              \* "new", "constructed" or "thrown"
  device_vendor,       \* the constructor's local after the short-name loop
  databases,           \* the constructor's list of databases to search
  searched,            \* the result of each Search call the loop made, in order
  parameters_,         \* the member *parameters_
  ret                  \* the value returned by the last accessor call

vars == <<apple_build, device, kernel_name, precision, overlay, database,
          apple_cpu_fallback, status, device_vendor, databases, searched,
          parameters_, ret>>

\* ---------------------------------------------------------------- bounds
MaxEntries == 2
MaxVendors == 3
MaxDevices == 2

\* ------------------------------------------------------------- constants
kDeviceVendorAll == "default"
kDeviceTypeAll == "default"
kDeviceNameDefault == "default"
kAny == "Any"
kAppleMarker == "cl_APPLE_SetMemObjectDestructor"
nullptr == <<>>

\* Alternative names for some OpenCL vendors, in the order of the initializer.
kVendorNames ==
  << <<"Intel(R) Corporation", "Intel">>,
     <<"GenuineIntel", "Intel">>,
     <<"Advanced Micro Devices, Inc.", "AMD">>,
     <<"NVIDIA Corporation", "NVIDIA">> >>

VendorKeys == {kVendorNames[i][1] : i \in DOMAIN kVendorNames}

\* The orders in which a range-for may visit the unordered_map's elements.
IterationOrders ==
  {o \in [DOMAIN kVendorNames -> DOMAIN kVendorNames] :
     \A i, j \in DOMAIN kVendorNames : i # j => o[i] # o[j]}

\* ------------------------------------------------------------ short name
RECURSIVE ShortNameLoop(_, _, _)
ShortNameLoop(order, i, vendor) ==
  IF i > Len(kVendorNames) THEN vendor
  ELSE LET combination == kVendorNames[order[i]]
       IN ShortNameLoop(order, i + 1,
                        IF vendor = combination[1] THEN combination[2] ELSE vendor)

\* Variant: no short name is set.
ShortVendorNameRaw(order, vendor) == vendor

\* Variant: the loop compares with combination.second and assigns
\* combination.first.
RECURSIVE ShortVendorNameSwapped(_, _)
ShortVendorNameSwapped(order, vendor) ==
  IF order = <<>> THEN vendor
  ELSE ShortVendorNameSwapped(Tail(order),
         IF vendor = kVendorNames[Head(order)][2] THEN kVendorNames[Head(order)][1]
         ELSE vendor)

ShortVendorName(order, vendor) == ShortNameLoop(order, 1, vendor)

\* ---------------------------------------------------------------- Search
EntryMatches(db, this_kernel, this_precision) ==
  /\ db.kernel = this_kernel
  /\ (db.precision = this_precision \/ db.precision = kAny)

\* Variant: the vendor name compared with the type and the type with the name.
VendorMatchesSwapped(vendor, this_vendor, this_type) ==
  /\ (vendor.name = this_type \/ vendor.name = kDeviceVendorAll)
  /\ (vendor.type = this_vendor \/ vendor.type = kDeviceTypeAll)

\* Variant: the wildcard applies to the pair, not to each axis.
VendorMatchesPair(vendor, this_vendor, this_type) ==
  \/ vendor.name = this_vendor /\ vendor.type = this_type
  \/ vendor.name = kDeviceVendorAll /\ vendor.type = kDeviceTypeAll

VendorMatches(vendor, this_vendor, this_type) ==
  /\ (vendor.name = this_vendor \/ vendor.name = kDeviceVendorAll)
  /\ (vendor.type = this_type \/ vendor.type = kDeviceTypeAll)

DeviceMatches(dev, this_device) ==
  dev.name = this_device \/ dev.name = kDeviceNameDefault

\* The innermost loop: the index of the first matching device, 0 if the loop
\* runs to its end.
RECURSIVE SearchDevices(_, _, _)
SearchDevices(devices, this_device, d) ==
  IF d > Len(devices) THEN 0
  ELSE IF DeviceMatches(devices[d], this_device) THEN d
  ELSE SearchDevices(devices, this_device, d + 1)

\* The vendor loop: <<vendor, device>> of the first return, <<>> if the loop
\* runs to its end.
RECURSIVE SearchVendors(_, _, _, _, _)
SearchVendors(vendors, this_type, this_vendor, this_device, v) ==
  IF v > Len(vendors) THEN <<>>
  ELSE IF VendorMatches(vendors[v], this_vendor, this_type)
       THEN LET d == SearchDevices(vendors[v].devices, this_device, 1)
            IN IF d # 0 THEN <<v, d>>
               ELSE SearchVendors(vendors, this_type, this_vendor, this_device, v + 1)
       ELSE SearchVendors(vendors, this_type, this_vendor, this_device, v + 1)

\* The entry loop.
RECURSIVE SearchEntries(_, _, _, _, _, _, _)
SearchEntries(this_kernel, this_type, this_vendor, this_device, this_precision, this_database, e) ==
  IF e > Len(this_database) THEN nullptr
  ELSE IF EntryMatches(this_database[e], this_kernel, this_precision)
       THEN LET vd == SearchVendors(this_database[e].vendors, this_type,
                                    this_vendor, this_device, 1)
            IN IF vd # <<>> THEN <<e>> \o vd
               ELSE SearchEntries(this_kernel, this_type, this_vendor, this_device,
                                  this_precision, this_database, e + 1)
       ELSE SearchEntries(this_kernel, this_type, this_vendor, this_device,
                          this_precision, this_database, e + 1)

\* Variant: returns after the vendor loop of the first entry matching kernel
\* and precision.
RECURSIVE SearchCommitted(_, _, _, _, _, _)
SearchCommitted(this_kernel, this_type, this_vendor, this_device, this_precision, this_database) ==
  IF this_database = <<>> THEN nullptr
  ELSE IF EntryMatches(Head(this_database), this_kernel, this_precision)
       THEN SearchEntries(this_kernel, this_type, this_vendor, this_device,
                          this_precision, <<Head(this_database)>>, 1)
       ELSE LET r == SearchCommitted(this_kernel, this_type, this_vendor, this_device,
                                     this_precision, Tail(this_database))
            IN IF r = nullptr THEN nullptr ELSE <<r[1] + 1, r[2], r[3]>>

Search(this_kernel, this_type, this_vendor, this_device, this_precision, this_database) ==
  SearchEntries(this_kernel, this_type, this_vendor, this_device, this_precision,
                this_database, 1)

\* *ptr for a non-null result of Search over db.
Deref(db, ptr) == db[ptr[1]].vendors[ptr[2]].devices[ptr[3]].parameters

\* ------------------------------------------------------------ Parameters
\* A Parameters value is the sequence of its <<name, value>> elements in
\* iteration order, names unique.
HasKey(parameters, name) == \E i \in DOMAIN parameters : parameters[i][1] = name

\* parameters.insert(first, last): each element of the range in turn, skipped
\* when its name is already present.
RECURSIVE ParametersInsert(_, _, _)
ParametersInsert(parameters, range, i) ==
  IF i > Len(range) THEN parameters
  ELSE ParametersInsert(IF HasKey(parameters, range[i][1]) THEN parameters
                        ELSE Append(parameters, range[i]),
                        range, i + 1)

\* ToString of a size_t: its decimal numeral.
Digits == <<"0", "1", "2", "3", "4", "5", "6", "7", "8", "9">>

RECURSIVE ToString(_)
ToString(n) ==
  IF n < 10 THEN Digits[n + 1] ELSE ToString(n \div 10) \o Digits[(n % 10) + 1]

\* ----------------------------------------------------------- constructor
\* std::string::find(marker) != npos on the capability string.
IsApple(extensions) == \E i \in DOMAIN extensions : extensions[i] = kAppleMarker

\* Variant: the built-in database before the overlay.
DatabaseListBuiltinFirst(is_apple_build, dev, ovl, builtin, fallback) ==
  IF is_apple_build /\ dev.type = "CPU" /\ IsApple(dev.capabilities)
  THEN <<fallback, builtin, ovl>>
  ELSE <<builtin, ovl>>

\* Variant: push_back instead of push_front.
DatabaseListPushBack(is_apple_build, dev, ovl, builtin, fallback) ==
  IF is_apple_build /\ dev.type = "CPU" /\ IsApple(dev.capabilities)
  THEN <<ovl, builtin, fallback>>
  ELSE <<ovl, builtin>>

\* The list of databases to search through.
DatabaseList(is_apple_build, dev, ovl, builtin, fallback) ==
  IF is_apple_build /\ dev.type = "CPU" /\ IsApple(dev.capabilities)
  THEN <<fallback, ovl, builtin>>
  ELSE <<ovl, builtin>>

\* The loop over the databases: the search_result of every iteration made,
\* the last one being the one the loop is left with.
\* Variant: the loop is left after its first iteration, found or not.
SearchLoopFirstOnly(dbs, i, this_kernel, this_type, this_vendor, this_device, this_precision) ==
  <<Search(this_kernel, this_type, this_vendor, this_device, this_precision, dbs[i])>>

\* Variant: no break, the loop searches every database.
RECURSIVE SearchLoopNoBreak(_, _, _, _, _, _, _)
SearchLoopNoBreak(dbs, i, this_kernel, this_type, this_vendor, this_device, this_precision) ==
  IF i > Len(dbs) THEN <<>>
  ELSE <<Search(this_kernel, this_type, this_vendor, this_device, this_precision, dbs[i])>>
       \o SearchLoopNoBreak(dbs, i + 1, this_kernel, this_type, this_vendor,
                            this_device, this_precision)

RECURSIVE SearchLoop(_, _, _, _, _, _, _)
SearchLoop(dbs, i, this_kernel, this_type, this_vendor, this_device, this_precision) ==
  IF i > Len(dbs) THEN <<>>
  ELSE LET search_result == Search(this_kernel, this_type, this_vendor, this_device,
                                   this_precision, dbs[i])
       IN IF search_result # nullptr THEN <<search_result>>
          ELSE <<search_result>> \o SearchLoop(dbs, i + 1, this_kernel, this_type,
                                               this_vendor, this_device, this_precision)

Construct ==
  /\ status = "new"
  /\ \E order \in IterationOrders :
       LET vendor == ShortVendorName(order, device.vendor)
           dbs == DatabaseList(apple_build, device, overlay, database, apple_cpu_fallback)
           results == SearchLoop(dbs, 1, kernel_name, device.type, vendor, device.name,
                                 precision)
           search_result == results[Len(results)]
       IN /\ device_vendor' = vendor
          /\ databases' = dbs
          /\ searched' = results
          /\ IF search_result # nullptr
             THEN /\ parameters_' = ParametersInsert(<<>>,
                                       Deref(dbs[Len(results)], search_result), 1)
                  /\ status' = "constructed"
             ELSE /\ parameters_' = <<>>
                  /\ status' = "thrown"
  /\ UNCHANGED <<apple_build, device, kernel_name, precision, overlay, database,
                 apple_cpu_fallback, ret>>

\* ------------------------------------------------------------- accessors
RECURSIVE DefinesLoop(_, _, _)
DefinesLoop(parameters, i, defines) ==
  IF i > Len(parameters) THEN defines
  ELSE DefinesLoop(parameters, i + 1,
                   defines \o "#define " \o parameters[i][1] \o " "
                           \o ToString(parameters[i][2]) \o "\n")

\* Variant: each line is put in front of the text so far.
RECURSIVE DefinesOfPrepended(_)
DefinesOfPrepended(parameters) ==
  IF parameters = <<>> THEN ""
  ELSE DefinesOfPrepended(Tail(parameters))
       \o "#define " \o Head(parameters)[1] \o " " \o ToString(Head(parameters)[2]) \o "\n"

DefinesOf(parameters) == DefinesLoop(parameters, 1, "")

RECURSIVE NamesLoop(_, _, _)
NamesLoop(parameters, i, parameter_names) ==
  IF i > Len(parameters) THEN parameter_names
  ELSE NamesLoop(parameters, i + 1, Append(parameter_names, parameters[i][1]))

ParameterNamesOf(parameters) == NamesLoop(parameters, 1, <<>>)

GetDefines ==
  /\ status = "constructed"
  /\ ret' = [op |-> "GetDefines", value |-> DefinesOf(parameters_)]
  /\ UNCHANGED <<apple_build, device, kernel_name, precision, overlay, database,
                 apple_cpu_fallback, status, device_vendor, databases, searched,
                 parameters_>>

GetParameterNames ==
  /\ status = "constructed"
  /\ ret' = [op |-> "GetParameterNames", value |-> ParameterNamesOf(parameters_)]
  /\ UNCHANGED <<apple_build, device, kernel_name, precision, overlay, database,
                 apple_cpu_fallback, status, device_vendor, databases, searched,
                 parameters_>>

\* ------------------------------------------------------- tables and inputs
Dev(name, parameters) == [name |-> name, parameters |-> parameters]
Ven(name, type, devices) == [name |-> name, type |-> type, devices |-> devices]
Ent(kernel, prec, vendors) == [kernel |-> kernel, precision |-> prec, vendors |-> vendors]

Xgemm(mwg, nwg, kwg) == << <<"MWG", mwg>>, <<"NWG", nwg>>, <<"KWG", kwg>> >>
Xaxpy(vw, wgs, wpt) == << <<"VW", vw>>, <<"WGS", wgs>>, <<"WPT", wpt>> >>

XaxpyDefault == Ent("Xaxpy", "Single",
  << Ven("default", "default", << Dev("default", Xaxpy(1, 64, 1)) >>) >>)

\* Overlays a caller may pass.
OverlayTuned == << Ent("Xgemm", "Single",
  << Ven("NVIDIA", "GPU", << Dev("GeForce GTX 480", Xgemm(32, 32, 8)),
                             Dev("default", Xgemm(64, 64, 16)) >>) >>) >>
OverlayAny == << Ent("Xgemm", kAny,
  << Ven("default", "default", << Dev("default", << <<"A", 16>>, <<"B", 4>> >>) >>) >>) >>
OverlayNoDefault == << Ent("Xgemm", "Single",
  << Ven("NVIDIA", "GPU", << Dev("GeForce GTX 480", Xgemm(32, 32, 8)) >>) >>) >>
Overlays == {<<>>, OverlayTuned, OverlayAny, OverlayNoDefault}

\* Built-in databases: one without the kernel, one with it.
BuiltinXgemm == Ent("Xgemm", "Single",
  << Ven("NVIDIA", "GPU", << Dev("GeForce GTX 480", Xgemm(128, 128, 32) \o << <<"VWM", 4>> >>),
                             Dev("Tesla V100", Xgemm(128, 64, 32) \o << <<"VWM", 2>> >>),
                             Dev("default", Xgemm(64, 32, 32) \o << <<"VWM", 1>> >>) >>),
     Ven("Intel", "CPU", << Dev("default", Xgemm(16, 16, 32) \o << <<"VWM", 8>> >>) >>),
     Ven("default", "default", << Dev("default", Xgemm(32, 32, 16) \o << <<"VWM", 1>> >>) >>) >>)
Builtins == {<<XaxpyDefault>>, <<XaxpyDefault, BuiltinXgemm>>}

\* Fallback databases for CPUs with Apple OpenCL: every entry is for any
\* precision, vendor and device.
XaxpyApple == Ent("Xaxpy", kAny,
  << Ven("default", "default", << Dev("default", Xaxpy(1, 64, 1)) >>) >>)
XgemmApple == Ent("Xgemm", kAny,
  << Ven("default", "default",
         << Dev("default", << <<"KWG", 32>>, <<"MWG", 32>>, <<"SA", 0>> >>) >>) >>)
Fallbacks == {<<XaxpyApple>>, <<XaxpyApple, XgemmApple>>}

DeviceTypes == {"CPU", "GPU"}
DeviceVendors == VendorKeys \cup {"Intel", "AMD", "NVIDIA", "ARM"}
DeviceNames == {"GeForce GTX 480", "Tesla V100"}
Capabilities == {<<>>, <<"cl_khr_fp64">>, <<"cl_khr_fp64", kAppleMarker>>}
Precisions == {"Single", "Double"}

Unconstructed ==
  /\ status = "new"
  /\ device_vendor = ""
  /\ databases = <<>>
  /\ searched = <<>>
  /\ parameters_ = <<>>
  /\ ret = [op |-> "none", value |-> ""]

\* Any device and build, against the named tables.
InitTables ==
  /\ apple_build \in BOOLEAN
  /\ device \in [type : DeviceTypes, vendor : DeviceVendors, name : DeviceNames,
                 capabilities : Capabilities]
  /\ kernel_name = "Xgemm"
  /\ precision \in Precisions
  /\ overlay \in Overlays
  /\ database \in Builtins
  /\ apple_cpu_fallback \in Fallbacks
  /\ Unconstructed

\* Every overlay of a given shape, the parameters of a device record naming
\* its position.
SeqsUpTo(S, n) == UNION {[1..k -> S] : k \in 0..n}

Shapes(entry_keys, ne, vendor_keys, nv, device_names, nd) ==
  LET device_lists == SeqsUpTo(device_names, nd)
      vendor_records == {[name |-> k[1], type |-> k[2], devices |-> dl] :
                           k \in vendor_keys, dl \in device_lists}
      vendor_lists == SeqsUpTo(vendor_records, nv)
      entries == {[kernel |-> k[1], precision |-> k[2], vendors |-> vl] :
                    k \in entry_keys, vl \in vendor_lists}
  IN SeqsUpTo(entries, ne)

Filled(shape) ==
  [e \in DOMAIN shape |->
    Ent(shape[e].kernel, shape[e].precision,
      [v \in DOMAIN shape[e].vendors |->
        Ven(shape[e].vendors[v].name, shape[e].vendors[v].type,
          [d \in DOMAIN shape[e].vendors[v].devices |->
            Dev(shape[e].vendors[v].devices[d], Xgemm(e, v, d))])])]

EntryShapes ==
  Shapes({<<"Xgemm", "Single">>, <<"Xgemm", kAny>>, <<"Xaxpy", "Single">>}, MaxEntries,
         {<<"NVIDIA", "GPU">>}, 1, {"default"}, 1)
VendorShapes ==
  Shapes({<<"Xgemm", kAny>>}, 1,
         {<<"NVIDIA", "GPU">>, <<"NVIDIA", "default">>, <<"default", "GPU">>,
          <<"default", "default">>}, MaxVendors, {"default"}, 1)
DeviceShapes ==
  Shapes({<<"Xgemm", "Single">>}, 1,
         {<<"NVIDIA", "GPU">>, <<"default", "default">>}, 2,
         {"GeForce GTX 480", "default"}, MaxDevices)

InitOverlays ==
  /\ apple_build = FALSE
  /\ device \in [type : DeviceTypes,
                 vendor : {"NVIDIA Corporation", "Advanced Micro Devices, Inc."},
                 name : DeviceNames, capabilities : {<<>>}]
  /\ kernel_name = "Xgemm"
  /\ precision \in Precisions
  /\ overlay \in {Filled(s) : s \in EntryShapes \cup VendorShapes \cup DeviceShapes}
  /\ database = <<XaxpyDefault>>
  /\ apple_cpu_fallback = <<XaxpyApple>>
  /\ Unconstructed

Init == InitTables \/ InitOverlays

Next == Construct \/ GetDefines \/ GetParameterNames

Spec == Init /\ [][Next]_vars

\* ========================================================== properties
\* What the properties say about a database db, for the target the
\* constructor searched for: kernel_name, device.type, device_vendor,
\* device.name and precision.
Positions(db) ==
  UNION {UNION {{<<e, v, d>> : d \in DOMAIN db[e].vendors[v].devices} :
                  v \in DOMAIN db[e].vendors} : e \in DOMAIN db}

KernelChain(db, e) ==
  db[e].kernel = kernel_name /\ db[e].precision \in {precision, "Any"}

VendorChain(db, e, v) ==
  /\ db[e].vendors[v].name \in {device_vendor, "default"}
  /\ db[e].vendors[v].type \in {device.type, "default"}

DeviceChain(db, e, v, d) ==
  db[e].vendors[v].devices[d].name \in {device.name, "default"}

Chains(db) ==
  {c \in Positions(db) : /\ KernelChain(db, c[1])
                         /\ VendorChain(db, c[1], c[2])
                         /\ DeviceChain(db, c[1], c[2], c[3])}

Before(a, b) ==
  \/ a[1] < b[1]
  \/ a[1] = b[1] /\ a[2] < b[2]
  \/ a[1] = b[1] /\ a[2] = b[2] /\ a[3] < b[3]

FirstOf(C) == CHOOSE c \in C : \A x \in C : x = c \/ Before(c, x)

Done == status # "new"

\* C10: every Search call of the constructor returned nullptr exactly when
\* the searched database holds no complete chain (kernel and precision-or-Any,
\* vendor-or-default and type-or-default independently, device-or-default),
\* and otherwise the first complete chain in scan order.
C10_SearchSoundComplete ==
  Done =>
    \A i \in DOMAIN searched :
      LET C == Chains(databases[i])
      IN /\ (searched[i] = nullptr) <=> (C = {})
         /\ C # {} => searched[i] = FirstOf(C)

\* C10 witness: a search over a database with several complete chains, one of
\* them through a vendor record that is a wildcard on one axis only, that
\* returned a position other than the first device of the first vendor of the
\* first entry.
C10_Witness ==
  /\ Done
  /\ \E i \in DOMAIN searched :
       /\ Cardinality(Chains(databases[i])) >= 2
       /\ searched[i] # nullptr
       /\ searched[i] # <<1, 1, 1>>
       /\ LET r == databases[i][searched[i][1]].vendors[searched[i][2]]
          IN (r.name = "default") # (r.type = "default")

\* The first entry of db matching kernel and precision, 0 if there is none.
MatchingEntries(db) == {e \in DOMAIN db : KernelChain(db, e)}
FirstMatchingEntry(db) ==
  IF MatchingEntries(db) = {} THEN 0
  ELSE CHOOSE e \in MatchingEntries(db) : \A x \in MatchingEntries(db) : e <= x
CompletingEntries(db) == {c[1] : c \in Chains(db)}

\* C1 as claimed: Search commits to the first entry matching kernel and
\* precision; when that entry completes no chain the result is nullptr, even
\* if a later entry completes one.
C1_AsClaimed ==
  Done =>
    \A i \in DOMAIN searched :
      LET e == FirstMatchingEntry(databases[i])
      IN (e # 0 /\ e \notin CompletingEntries(databases[i])) => searched[i] = nullptr

\* C1 amended: Search does not commit to the first entry matching kernel and
\* precision. Its result lies in the first matching entry that completes a
\* vendor -> device chain, and it is nullptr only when no matching entry
\* completes one.
C1_FirstCompletingEntry ==
  Done =>
    \A i \in DOMAIN searched :
      LET E == CompletingEntries(databases[i])
      IN IF E = {} THEN searched[i] = nullptr
         ELSE /\ searched[i] # nullptr
              /\ searched[i][1] \in E
              /\ \A e \in E : searched[i][1] <= e

\* C1 witness: the first entry matching kernel and precision completes no
\* chain, and Search returned a record of a later entry.
C1_Witness ==
  /\ Done
  /\ \E i \in DOMAIN searched :
       LET e == FirstMatchingEntry(databases[i])
       IN /\ e # 0
          /\ e \notin CompletingEntries(databases[i])
          /\ searched[i] # nullptr
          /\ searched[i][1] > e

\* The vendor records of entry e of db, and the parameters at a position.
VendorsOf(db, e) == db[e].vendors
ParametersAt(db, c) == db[c[1]].vendors[c[2]].devices[c[3]].parameters

\* In entry e of db, which is the first entry matching kernel and precision,
\* record s carries the (specific) vendor name searched for, a "default"
\* vendor record follows it, and no record before s carries either name.
SpecificBeforeDefault(db, e, s) ==
  /\ e # 0
  /\ e = FirstMatchingEntry(db)
  /\ s \in DOMAIN VendorsOf(db, e)
  /\ device_vendor # "default"
  /\ VendorsOf(db, e)[s].name = device_vendor
  /\ \E t \in DOMAIN VendorsOf(db, e) : t > s /\ VendorsOf(db, e)[t].name = "default"
  /\ \A u \in DOMAIN VendorsOf(db, e) :
       u < s => VendorsOf(db, e)[u].name \notin {device_vendor, "default"}

\* The specific record also matches the device type and holds a record for
\* the device name or "default".
SpecificCompletes(db, e, s) ==
  /\ VendorsOf(db, e)[s].type \in {device.type, "default"}
  /\ \E d \in DOMAIN VendorsOf(db, e)[s].devices :
       VendorsOf(db, e)[s].devices[d].name \in {device.name, "default"}

\* C5 as claimed: with a specific vendor record placed before the "default"
\* vendor record, Search with that vendor returns parameters of the specific
\* record.
C5_AsClaimed ==
  Done =>
    \A i \in DOMAIN searched : \A e \in DOMAIN databases[i] :
      \A s \in DOMAIN VendorsOf(databases[i], e) :
        SpecificBeforeDefault(databases[i], e, s) =>
          /\ searched[i] # nullptr
          /\ searched[i][1] = e
          /\ searched[i][2] = s

\* C5 amended: with a specific vendor record placed before the "default"
\* vendor record, Search with that vendor returns parameters of the specific
\* record provided that record also matches the device type (or is of type
\* "default") and lists the device name or a "default" device; otherwise the
\* search goes on to the later records, the "default" one included.
C5_SpecificWhenComplete ==
  Done =>
    \A i \in DOMAIN searched : \A e \in DOMAIN databases[i] :
      \A s \in DOMAIN VendorsOf(databases[i], e) :
        (SpecificBeforeDefault(databases[i], e, s) /\ SpecificCompletes(databases[i], e, s)) =>
          /\ searched[i] # nullptr
          /\ searched[i][1] = e
          /\ searched[i][2] = s

\* C5 witness: a specific record that completes a chain precedes a "default"
\* vendor record that completes one too, and Search returned the specific one.
C5_Witness ==
  /\ Done
  /\ \E i \in DOMAIN searched : \E e \in DOMAIN databases[i] :
       \E s \in DOMAIN VendorsOf(databases[i], e) :
         /\ SpecificBeforeDefault(databases[i], e, s)
         /\ SpecificCompletes(databases[i], e, s)
         /\ \E c \in Chains(databases[i]) :
              c[1] = e /\ c[2] > s /\ VendorsOf(databases[i], e)[c[2]].name = "default"
         /\ searched[i] # nullptr
         /\ searched[i][2] = s

\* C2: without the special-case database in the list, when the overlay and
\* the built-in database both hold a complete chain for the target, the
\* constructor succeeds with exactly the parameters of the overlay's first
\* chain, and the built-in database is not searched.
C2_OverlayPriority ==
  (Done /\ Len(databases) = 2 /\ Chains(overlay) # {} /\ Chains(database) # {}) =>
    /\ status = "constructed"
    /\ Len(searched) = 1
    /\ parameters_ = ParametersAt(overlay, FirstOf(Chains(overlay)))

\* C2 witness: both hold a chain, with different parameters, and the result
\* is the overlay's.
C2_Witness ==
  /\ status = "constructed"
  /\ Len(databases) = 2
  /\ Chains(overlay) # {}
  /\ Chains(database) # {}
  /\ ParametersAt(overlay, FirstOf(Chains(overlay)))
       # ParametersAt(database, FirstOf(Chains(database)))
  /\ parameters_ = ParametersAt(overlay, FirstOf(Chains(overlay)))

\* The device is a CPU whose capability string holds the marker extension.
CpuWithMarker ==
  /\ device.type = "CPU"
  /\ \E i \in DOMAIN device.capabilities :
       device.capabilities[i] = "cl_APPLE_SetMemObjectDestructor"

\* What C3 says of a device for which the special case applies or not.
SpecialCaseFirst ==
  /\ databases = <<apple_cpu_fallback, overlay, database>>
  /\ Chains(apple_cpu_fallback) # {} =>
       /\ status = "constructed"
       /\ parameters_ = ParametersAt(apple_cpu_fallback, FirstOf(Chains(apple_cpu_fallback)))
SpecialCaseAbsent ==
  /\ databases = <<overlay, database>>
  /\ Len(searched) <= 2
  /\ status = "thrown" <=> (Chains(overlay) = {} /\ Chains(database) = {})

\* C3 as claimed: whenever the device is a CPU with the marker extension the
\* special-case database is searched first and wins if it holds a chain;
\* otherwise it is not consulted.
C3_AsClaimed ==
  Done => IF CpuWithMarker THEN SpecialCaseFirst ELSE SpecialCaseAbsent

\* C3 amended: in a build with __APPLE__ or __MACOSX defined, whenever the
\* device is a CPU with the marker extension the special-case database is
\* searched first and wins if it holds a chain; in every other case (another
\* build, not a CPU, no marker) it is not consulted and the search is over
\* [overlay, built-in].
C3_SpecialCaseInAppleBuild ==
  Done => IF apple_build /\ CpuWithMarker THEN SpecialCaseFirst ELSE SpecialCaseAbsent

\* C3 witness: the special-case database, the overlay and the built-in one
\* all hold a chain, and the result is the special-case parameters.
C3_Witness ==
  /\ status = "constructed"
  /\ apple_build
  /\ CpuWithMarker
  /\ Chains(apple_cpu_fallback) # {}
  /\ Chains(overlay) # {}
  /\ Chains(database) # {}
  /\ parameters_ = ParametersAt(apple_cpu_fallback, FirstOf(Chains(apple_cpu_fallback)))
  /\ parameters_ # ParametersAt(overlay, FirstOf(Chains(overlay)))

\* C4: the constructor throws exactly when no database of the list holds a
\* complete chain; it then has searched every database, each search returning
\* nullptr, and has produced no parameters; when any database of the list
\* holds a chain the constructor succeeds, whatever the earlier ones returned.
C4_Exhaustion ==
  Done =>
    /\ status = "thrown" <=> \A i \in DOMAIN databases : Chains(databases[i]) = {}
    /\ status = "thrown" =>
         /\ Len(searched) = Len(databases)
         /\ \A i \in DOMAIN searched : searched[i] = nullptr
         /\ parameters_ = <<>>
         /\ ret.op = "none"
    /\ status = "constructed" => searched[Len(searched)] # nullptr

\* C4 witness: the constructor threw after three searches.
C4_Witness ==
  /\ status = "thrown"
  /\ Len(searched) = 3

\* C9: a constructed database holds exactly the parameters of one device
\* record, the one Search returned for the first database of the list that
\* holds a chain; every earlier search returned nullptr and no later database
\* was searched, so no other record contributes a name.
C9_SingleContributor ==
  status = "constructed" =>
    LET i == Len(searched)
    IN /\ i \in DOMAIN databases
       /\ \A j \in 1..(i - 1) : searched[j] = nullptr /\ Chains(databases[j]) = {}
       /\ searched[i] \in Chains(databases[i])
       /\ parameters_ = ParametersAt(databases[i], searched[i])

\* C9 witness: the contributing record was reached through "default" vendor
\* and device records, while a later database of the list holds a record for
\* exactly this vendor and device name.
C9_Witness ==
  /\ status = "constructed"
  /\ LET i == Len(searched)
         c == searched[i]
     IN /\ databases[i][c[1]].vendors[c[2]].name = "default"
        /\ databases[i][c[1]].vendors[c[2]].devices[c[3]].name = "default"
        /\ \E j \in DOMAIN databases :
             /\ j > i
             /\ \E x \in Chains(databases[j]) :
                  /\ databases[j][x[1]].vendors[x[2]].name = device_vendor
                  /\ databases[j][x[1]].vendors[x[2]].devices[x[3]].name = device.name
                  /\ ParametersAt(databases[j], x) # parameters_

\* The short name the table gives for a vendor string, the string itself
\* when the table has no such key.
Canonical(vendor) ==
  IF \E i \in DOMAIN kVendorNames : kVendorNames[i][1] = vendor
  THEN kVendorNames[CHOOSE i \in DOMAIN kVendorNames : kVendorNames[i][1] = vendor][2]
  ELSE vendor

\* The vendor records of db that match the target under the short name of
\* the device's vendor, as <<entry, vendor>>, and the first of them.
MatchedVendors(db) ==
  {p \in UNION {{<<e, v>> : v \in DOMAIN db[e].vendors} : e \in DOMAIN db} :
     /\ KernelChain(db, p[1])
     /\ db[p[1]].vendors[p[2]].name \in {Canonical(device.vendor), "default"}
     /\ db[p[1]].vendors[p[2]].type \in {device.type, "default"}}

FirstVendor(P) ==
  CHOOSE p \in P : \A x \in P : x = p \/ p[1] < x[1] \/ (p[1] = x[1] /\ p[2] < x[2])

DefaultDevices(r) == {d \in DOMAIN r.devices : r.devices[d].name = "default"}
FirstDefault(r) == CHOOSE d \in DefaultDevices(r) : \A x \in DefaultDevices(r) : d <= x

\* C6: for a device whose raw vendor string is a key of the alias table, the
\* search uses the short name: when the first vendor record of the first
\* database of the list that matches the target under the short name does not
\* list the device name but holds a "default" device record, the constructor
\* succeeds at that database with exactly the parameters of that record's
\* first "default" device record. In particular "NVIDIA Corporation", GPU,
\* "Tesla V100", Single against OverlayTuned gives MWG 64, NWG 64, KWG 16.
C6_DefaultDeviceAfterNormalization ==
  (Done /\ device.vendor \in VendorKeys) =>
    /\ device_vendor = Canonical(device.vendor)
    /\ LET P == MatchedVendors(databases[1])
       IN P # {} =>
            LET p == FirstVendor(P)
                r == databases[1][p[1]].vendors[p[2]]
            IN ((\A d \in DOMAIN r.devices : r.devices[d].name # device.name)
                /\ DefaultDevices(r) # {}) =>
                 /\ status = "constructed"
                 /\ searched = << <<p[1], p[2], FirstDefault(r)>> >>
                 /\ parameters_ = r.devices[FirstDefault(r)].parameters
    /\ (/\ device = [type |-> "GPU", vendor |-> "NVIDIA Corporation",
                     name |-> "Tesla V100", capabilities |-> device.capabilities]
        /\ precision = "Single"
        /\ databases[1] = OverlayTuned) =>
         parameters_ = << <<"MWG", 64>>, <<"NWG", 64>>, <<"KWG", 16>> >>

\* C6 witness: the end-to-end scenario, the matched record being the one
\* named "NVIDIA" and its device list lacking "Tesla V100".
C6_Witness ==
  /\ status = "constructed"
  /\ device.vendor = "NVIDIA Corporation"
  /\ device.name = "Tesla V100"
  /\ LET c == searched[1]
         r == databases[1][c[1]].vendors[c[2]]
     IN /\ Len(searched) = 1
        /\ r.name = "NVIDIA"
        /\ \A d \in DOMAIN r.devices : r.devices[d].name # "Tesla V100"
        /\ r.devices[c[3]].name = "default"
  /\ parameters_ = << <<"MWG", 64>>, <<"NWG", 64>>, <<"KWG", 16>> >>

\* C7: the short-name loop leaves a vendor string that is not a key of the
\* table unchanged, and its result is a fixed point of the loop and the same
\* for every iteration order of the table.
C7_AliasIdempotence ==
  Done =>
    /\ device.vendor \notin VendorKeys => device_vendor = device.vendor
    /\ \A o \in IterationOrders :
         /\ ShortVendorName(o, device.vendor) = device_vendor
         /\ ShortVendorName(o, device_vendor) = device_vendor

\* C7 witness: a vendor string that is a key was rewritten.
C7_Witness ==
  /\ Done
  /\ device.vendor \in VendorKeys
  /\ device_vendor # device.vendor
  /\ device_vendor \notin VendorKeys

\* The text C8 expects for a parameter sequence: the lines, first to last.
RECURSIVE ExpectedDefines(_)
ExpectedDefines(parameters) ==
  IF parameters = <<>> THEN ""
  ELSE "#define " \o Head(parameters)[1] \o " " \o ToString(Head(parameters)[2])
       \o "\n" \o ExpectedDefines(Tail(parameters))

====
